---- MODULE Spec2Model ----
(***************************************************************************)
(* Model of the portfolio analytics functions of                           *)
(* mstee37/portfolio-construction-tools:                                   *)
(*   calculate_stats.py : get_risk_free_rate, get_sharpe_ratio,            *)
(*                        calculate_draw_down,                             *)
(*                        calculate_model_performance_stats                *)
(*   pf_std.py          : calculate_portfolio_std                          *)
(*                                                                         *)
(* Numbers.  The Python code computes in binary floating point.  The model *)
(* computes over the rationals, a number being a normalised pair <<n, d>>  *)
(* with d > 0 and gcd(n, d) = 1, so that equality of numbers is equality   *)
(* of pairs.  Rounding is therefore not modelled.  A square root is kept   *)
(* symbolically by its radicand.  NaN is the pair <<0, 0>>.                 *)
(*                                                                         *)
(* A date is an integer yyyymmdd; the order of dates is the order of the   *)
(* integers, the calendar month is (d \div 100) % 100 and the calendar     *)
(* year d \div 10000.                                                      *)
(***************************************************************************)
EXTENDS Integers, Sequences, FiniteSets, TLC

VARIABLES call, out, trace, pc, fred, out2, trace2

vars == <<call, out, trace, pc, fred, out2, trace2>>

\* NaN is 0/0: a pair like every other number, equal to no normalised rational
NaN == <<0, 0>>

None == [kind |-> "none"]

(***************************************************************************)
(* Rational arithmetic (the float operators + - * / < of the source).      *)
(***************************************************************************)
Abs(x) == IF x < 0 THEN -x ELSE x

RECURSIVE GCD(_, _)
GCD(a, b) == IF b = 0 THEN a ELSE GCD(b, a % b)

Norm(n, d) ==
    LET g == GCD(Abs(n), Abs(d))
        s == IF d < 0 THEN -1 ELSE 1
    IN  <<(s * n) \div g, (s * d) \div g>>

R(n) == <<n, 1>>

Zero == R(0)

RAdd(a, b) ==
    LET g == GCD(a[2], b[2])
    IN  Norm(a[1] * (b[2] \div g) + b[1] * (a[2] \div g), (a[2] \div g) * b[2])

RNeg(a) == <<-a[1], a[2]>>

RSub(a, b) == RAdd(a, RNeg(b))

\* cross-reduced before multiplying, which keeps the intermediate products small
RMul(a, b) ==
    LET g1 == GCD(Abs(a[1]), b[2])
        g2 == GCD(Abs(b[1]), a[2])
        h1 == IF g1 = 0 THEN 1 ELSE g1
        h2 == IF g2 = 0 THEN 1 ELSE g2
    IN  Norm((a[1] \div h1) * (b[1] \div h2), (a[2] \div h2) * (b[2] \div h1))

\* b # 0
RDiv(a, b) == RMul(a, Norm(b[2], b[1]))

RLt(a, b) == a[1] * b[2] < b[1] * a[2]

RLe(a, b) == a[1] * b[2] <= b[1] * a[2]

Sign(a) == IF a[1] > 0 THEN 1 ELSE IF a[1] < 0 THEN -1 ELSE 0

\* Python's builtin max(a, b): the first argument unless the second is greater
PyMax(a, b) == IF RLt(a, b) THEN b ELSE a

RECURSIVE RSum(_)
RSum(s) == IF s = <<>> THEN Zero ELSE RAdd(s[1], RSum(Tail(s)))

Last(s) == s[Len(s)]

(***************************************************************************)
(* calculate_draw_down                                                     *)
(*                                                                         *)
(* A frame df is a sequence of rows [date, value], dates strictly          *)
(* increasing; value is the column `column`, an integer.                   *)
(***************************************************************************)
Raise(e) == [kind |-> "error", err |-> e]

NonFinite == [kind |-> "nonfinite"]

\* dd_loop with mdd = dd in place of max(mdd, dd)
RECURSIVE dd_loop_no_running_max(_, _, _, _, _)
dd_loop_no_running_max(df, i, peak, mdd, rows) ==
    IF i > Len(df) THEN [kind |-> "frame", rows |-> rows]
    ELSE LET v     == R(df[i].value)
             peak2 == PyMax(peak, v)
         IN  IF peak2 = Zero THEN NonFinite
             ELSE LET dd == RDiv(RSub(peak2, v), peak2)
                  IN  dd_loop_no_running_max(df, i + 1, peak2, dd,
                              Append(rows, [date |-> df[i].date, dd |-> dd, mdd |-> dd]))

\* the loop of get_full_period_dd, lines 104-107: i is the position of the
\* next index label; rows holds the records df_result.loc[i] written so far.
\* A zero peak makes (peak - value) / peak a numpy division by zero, whose
\* result is inf or nan: the frame is then reported as NonFinite and not
\* tracked further.
RECURSIVE dd_loop(_, _, _, _, _)
dd_loop(df, i, peak, mdd, rows) ==
    IF i > Len(df) THEN [kind |-> "frame", rows |-> rows]
    ELSE LET v     == R(df[i].value)
             peak2 == PyMax(peak, v)
         IN  IF peak2 = Zero THEN NonFinite
             ELSE LET dd   == RDiv(RSub(peak2, v), peak2)
                      mdd2 == PyMax(mdd, dd)
                  IN  dd_loop(df, i + 1, peak2, mdd2,
                              Append(rows, [date |-> df[i].date, dd |-> dd, mdd |-> mdd2]))

\* expanding_mean with the mean of the whole column on every row
expanding_mean_whole_column(rows) ==
    [t \in 1..Len(rows) |->
        RDiv(RSum([j \in 1..Len(rows) |-> rows[j].dd]), R(Len(rows)))]

\* df_result["dd"].expanding().mean(), line 108
expanding_mean(rows) ==
    [t \in 1..Len(rows) |->
        RDiv(RSum([j \in 1..t |-> rows[j].dd]), R(t))]

get_full_period_dd(df) ==
    IF Len(df) = 0 THEN Raise("IndexError")        \* df.iloc[0] on an empty frame
    ELSE LET r == dd_loop(df, 1, R(df[1].value), Zero, <<>>)
         IN  IF r.kind # "frame" THEN r
             ELSE LET av == expanding_mean(r.rows)
                  IN  [kind |-> "frame",
                       rows |-> [t \in 1..Len(r.rows) |->
                                   [date |-> r.rows[t].date, dd |-> r.rows[t].dd,
                                    mdd |-> r.rows[t].mdd, avdd |-> av[t]]]]

Min(a, b) == IF a < b THEN a ELSE b

\* slices_from without the last, shorter slice
RECURSIVE slices_from_full_only(_, _, _)
slices_from_full_only(df, start, n) ==
    IF start + n > Len(df) THEN <<>>
    ELSE <<SubSeq(df, start + 1, start + n)>> \o slices_from_full_only(df, start + n, n)

\* range(0, len(df), n) for n > 0 and df.iloc[start:start + n]
RECURSIVE slices_from(_, _, _)
slices_from(df, start, n) ==
    IF start >= Len(df) THEN <<>>
    ELSE <<SubSeq(df, start + 1, Min(start + n, Len(df)))>>
            \o slices_from(df, start + n, n)

\* n < 0 gives an empty range and so no slice; n = 0 is rejected by range()
get_slices(df, n) == IF n <= 0 THEN <<>> ELSE slices_from(df, 0, n)

\* get_full_period_dd(df_slice, column)[["mdd", "avdd"]].iloc[-1]
slice_summary(df_slice) ==
    LET r == get_full_period_dd(df_slice)
    IN  IF r.kind # "frame" THEN r
        ELSE [kind |-> "row", mdd |-> Last(r.rows).mdd, avdd |-> Last(r.rows).avdd]

calculate_draw_down(df, freq_days, full_period) ==
    IF full_period THEN get_full_period_dd(df)
    ELSE IF freq_days = 0 THEN Raise("ValueError")   \* range() arg 3 must not be zero
    ELSE LET slices == get_slices(df, freq_days)
         IN  IF slices = <<>> THEN Raise("ValueError")   \* pd.concat of no objects
             ELSE [kind |-> "summary",
                   rows |-> [k \in 1..Len(slices) |-> slice_summary(slices[k])]]

(***************************************************************************)
(* calculate_portfolio_std                                                 *)
(*                                                                         *)
(* An ndarray is [shape, data]: shape the sequence of its dimensions (<<>>  *)
(* for a 0-d array made from a scalar), data its elements in row-major     *)
(* order.                                                                  *)
(***************************************************************************)
Arr(shape, data) == [shape |-> shape, data |-> data]

At2(A, i, j) == A.data[(i - 1) * A.shape[2] + j]

\* np.outer(a, b): both arguments are flattened
np_outer(a, b) ==
    LET m == Len(a.data)
        n == Len(b.data)
    IN  Arr(<<m, n>>,
            [x \in 1..(m * n) |->
                RMul(a.data[((x - 1) \div n) + 1], b.data[((x - 1) % n) + 1])])

BroadcastOk(a, b) == a = b \/ a = 1 \/ b = 1

BroadcastDim(a, b) == IF a = 1 THEN b ELSE a

\* np_multiply with the correlations left out
np_multiply_without_correlations(X, C) == X

\* X * C for a 2-d X: numpy broadcasting, C 0-d, 1-d (a row) or 2-d
np_multiply(X, C) ==
    LET cs == IF Len(C.shape) = 0 THEN <<1, 1>>
              ELSE IF Len(C.shape) = 1 THEN <<1, C.shape[1]>>
              ELSE C.shape
        C2 == Arr(cs, C.data)
    IN  IF ~(BroadcastOk(X.shape[1], cs[1]) /\ BroadcastOk(X.shape[2], cs[2]))
        THEN Raise("ValueError")    \* operands could not be broadcast together
        ELSE LET p == BroadcastDim(X.shape[1], cs[1])
                 q == BroadcastDim(X.shape[2], cs[2])
                 pick(A, i, j) == At2(A, IF A.shape[1] = 1 THEN 1 ELSE i,
                                         IF A.shape[2] = 1 THEN 1 ELSE j)
             IN  Arr(<<p, q>>,
                     [x \in 1..(p * q) |->
                        RMul(pick(X, ((x - 1) \div q) + 1, ((x - 1) % q) + 1),
                             pick(C2, ((x - 1) \div q) + 1, ((x - 1) % q) + 1))])

Scale(A, c) == Arr(A.shape, [x \in 1..Len(A.data) |-> RMul(A.data[x], c)])

\* np.dot(A, w) for a 2-d A and a 0-d or 1-d w
np_dot_mv(A, w) ==
    IF Len(w.shape) = 0 THEN Scale(A, w.data[1])
    ELSE IF A.shape[2] # w.shape[1] THEN Raise("ValueError")   \* shapes not aligned
    ELSE Arr(<<A.shape[1]>>,
             [i \in 1..A.shape[1] |->
                RSum([j \in 1..A.shape[2] |-> RMul(At2(A, i, j), w.data[j])])])

\* np.dot(w.T, u): the transpose of a 0-d or 1-d array is the array itself;
\* u is what np_dot_mv returned for the same w
np_dot_vv(w, u) ==
    IF Len(w.shape) = 0 THEN Scale(u, w.data[1])
    ELSE IF w.shape # u.shape THEN Raise("ValueError")          \* shapes not aligned
    ELSE Arr(<<>>, <<RSum([j \in 1..Len(w.data) |-> RMul(w.data[j], u.data[j])])>>)

\* np.sqrt of one element: nan (with a RuntimeWarning) below zero, else the
\* root, kept by its radicand
np_sqrt(x) == IF x[1] < 0 THEN [sqrt_of |-> NaN] ELSE [sqrt_of |-> x]

calculate_portfolio_std(weights, std_devs, correlations) ==
    LET covariance_matrix == np_multiply(np_outer(std_devs, std_devs), correlations)
    IN  IF "kind" \in DOMAIN covariance_matrix THEN covariance_matrix
        ELSE LET inner == np_dot_mv(covariance_matrix, weights)
             IN  IF "kind" \in DOMAIN inner THEN inner
                 ELSE LET portfolio_variance == np_dot_vv(weights, inner)
                      IN  IF "kind" \in DOMAIN portfolio_variance THEN portfolio_variance
                          ELSE [kind |-> "value",
                                shape |-> portfolio_variance.shape,
                                data |-> [x \in 1..Len(portfolio_variance.data) |->
                                            np_sqrt(portfolio_variance.data[x])]]

(***************************************************************************)
(* Floating point values outside the rationals, and roots                  *)
(*                                                                         *)
(* Inf is 1/0 and -Inf is -1/0.  std() and np.sqrt() return a root         *)
(* [sqrt_of |-> radicand]; a quotient or product of a number and a root is *)
(* kept as [sgn, sq]: its sign and its square, so that two such values are *)
(* equal as reals exactly if they are equal as records.                    *)
(***************************************************************************)
Inf == <<1, 0>>

IsFinite(a) == a[2] # 0

QNaN == [sgn |-> 0, sq |-> NaN]

\* a / s for a number a and a root s: numpy float64 division, x / 0.0 being
\* inf, -inf or nan
DivByRoot(a, s) ==
    IF ~IsFinite(a) \/ ~IsFinite(s.sqrt_of) THEN QNaN
    ELSE IF s.sqrt_of = Zero
         THEN IF a = Zero THEN QNaN ELSE [sgn |-> Sign(a), sq |-> Inf]
    ELSE [sgn |-> Sign(a), sq |-> RDiv(RMul(a, a), s.sqrt_of)]

\* v * s for a value v = [sgn, sq] and a root s of a positive number
MulByRoot(v, s) ==
    IF ~IsFinite(v.sq) THEN v ELSE [sgn |-> v.sgn, sq |-> RMul(v.sq, s.sqrt_of)]

\* s1 * s2 for two roots
RootMul(s1, s2) ==
    IF ~IsFinite(s1.sqrt_of) \/ ~IsFinite(s2.sqrt_of) THEN [sqrt_of |-> NaN]
    ELSE [sqrt_of |-> RMul(s1.sqrt_of, s2.sqrt_of)]

\* Series.mean(): NaN entries are skipped; NaN when nothing is left
NotNaN(a) == a # NaN

Mean(x) ==
    LET y == SelectSeq(x, NotNaN)
    IN  IF Len(y) = 0 THEN NaN ELSE RDiv(RSum(y), R(Len(y)))

\* Std with the population deviation (ddof = 0)
Std_population(x) ==
    LET y == SelectSeq(x, NotNaN)
        m == Mean(y)
    IN  IF Len(y) < 1 THEN [sqrt_of |-> NaN]
        ELSE [sqrt_of |->
                RDiv(RSum([i \in 1..Len(y) |-> RMul(RSub(y[i], m), RSub(y[i], m))]),
                     R(Len(y)))]

\* Series.std(): the sample deviation (ddof = 1), NaN entries skipped; NaN
\* with fewer than two observations
Std(x) ==
    LET y == SelectSeq(x, NotNaN)
        m == Mean(y)
    IN  IF Len(y) < 2 THEN [sqrt_of |-> NaN]
        ELSE [sqrt_of |->
                RDiv(RSum([i \in 1..Len(y) |-> RMul(RSub(y[i], m), RSub(y[i], m))]),
                     R(Len(y) - 1))]

\* (1 + x / 100).prod()
RECURSIVE Prod1p(_)
Prod1p(x) ==
    IF x = <<>> THEN R(1)
    ELSE RMul(RAdd(R(1), RDiv(x[1], R(100))), Prod1p(Tail(x)))

(***************************************************************************)
(* get_risk_free_rate                                                      *)
(*                                                                         *)
(* remote is the table the FRED endpoint serves at the time of the call:   *)
(* rows [date, cell], dates increasing; a cell is [dot, num], the text "." *)
(* of a day without a quote or the text of the number num.                 *)
(***************************************************************************)
\* .replace({".": np.nan}).astype("float")
parse_cell(c) == IF c.dot THEN NaN ELSE c.num

\* the frame after resample("D").last().ffill() and the filter on the index:
\* kept as its first and last day and the parsed quotes behind it
get_risk_free_rate(start_date, end_date, remote) ==
    LET served == SelectSeq(remote,
                    LAMBDA r : r.date >= 20150101 /\ r.date <= end_date)
        obs == [i \in 1..Len(served) |->
                  [date |-> served[i].date, dgs10 |-> parse_cell(served[i].cell)]]
    IN  IF Len(obs) = 0 THEN [empty |-> TRUE, lo |-> 0, hi |-> 0, obs |-> obs]
        ELSE LET lo == IF obs[1].date < start_date THEN start_date ELSE obs[1].date
                 hi == obs[Len(obs)].date
             IN  [empty |-> lo > hi, lo |-> lo, hi |-> hi, obs |-> obs]

\* the value of the daily, forward-filled frame on day d of its index: the
\* latest quote at or before d that is not NaN
RECURSIVE ffill_at(_, _, _)
ffill_at(obs, i, d) ==
    IF i = 0 THEN NaN
    ELSE IF obs[i].date <= d /\ obs[i].dgs10 # NaN THEN obs[i].dgs10
    ELSE ffill_at(obs, i - 1, d)

\* df_risk_free.reindex(index): NaN on the labels the frame does not have
reindex(rf, index) ==
    [i \in 1..Len(index) |->
        IF ~rf.empty /\ rf.lo <= index[i] /\ index[i] <= rf.hi
        THEN ffill_at(rf.obs, Len(rf.obs), index[i]) ELSE NaN]

RECURSIVE ffill(_, _, _)
ffill(x, i, prev) ==
    IF i > Len(x) THEN <<>>
    ELSE LET v == IF x[i] = NaN THEN prev ELSE x[i]
         IN  <<v>> \o ffill(x, i + 1, v)

RECURSIVE bfill(_, _, _)
bfill(x, i, nxt) ==
    IF i = 0 THEN <<>>
    ELSE LET v == IF x[i] = NaN THEN nxt ELSE x[i]
         IN  bfill(x, i - 1, v) \o <<v>>

(***************************************************************************)
(* get_sharpe_ratio                                                        *)
(***************************************************************************)
\* df_index.loc[start_date:end_date]: both ends included
loc_slice(df, start_date, end_date) ==
    SelectSeq(df, LAMBDA r : start_date <= r.date /\ r.date <= end_date)

\* df_index[col].pct_change().fillna(0) * 100
pct_change(df) ==
    [i \in 1..Len(df) |->
        IF i = 1 THEN Zero
        ELSE RMul(RSub(RDiv(R(df[i].value), R(df[i - 1].value)), R(1)), R(100))]

\* the calendar bucket of pd.Grouper(level="date", freq=freq)
BucketKey(freq, d) == IF freq = "YE" THEN d \div 10000 ELSE d \div 100

NextKey(freq, k) ==
    IF freq = "YE" THEN k + 1 ELSE IF k % 100 = 12 THEN k + 89 ELSE k + 1

\* every bin from the first observation's to the last one's, the empty ones too
RECURSIVE Bins(_, _, _)
Bins(freq, k, last) ==
    IF k > last THEN <<>> ELSE <<k>> \o Bins(freq, NextKey(freq, k), last)

\* df_risk_free.loc[d].values[0]
rf_loc(index, rf, d) == rf[CHOOSE i \in 1..Len(index) : index[i] = d]

\* annualized_daily (divisor 1) and monthly_sharpe_from_daily (divisor 12);
\* x is the group: rows [date, r]
bucket_sharpe(x, index, rf, divisor) ==
    IF Len(x) = 0 THEN Raise("IndexError")     \* x.index[-1] of an empty group
    ELSE LET risk_free == rf_loc(index, rf, x[Len(x)].date)
             r == [i \in 1..Len(x) |-> x[i].r]
             numer == IF risk_free = NaN THEN NaN
                      ELSE RSub(RMul(R(100), RSub(Prod1p(r), R(1))),
                                RDiv(risk_free, R(divisor)))
         IN  [kind |-> "value",
              value |-> DivByRoot(numer, RootMul(Std(r), [sqrt_of |-> R(Len(x))]))]

\* groupby(...).apply(f): f on every bin in order; an exception of f ends the call
groupby_apply(rets, freq, index, rf) ==
    IF Len(rets) = 0 THEN [kind |-> "series", rows |-> <<>>]
    ELSE LET bins == Bins(freq, BucketKey(freq, rets[1].date),
                          BucketKey(freq, rets[Len(rets)].date))
             res == [b \in 1..Len(bins) |->
                      bucket_sharpe(
                          SelectSeq(rets, LAMBDA x : BucketKey(freq, x.date) = bins[b]),
                          index, rf, IF freq = "YE" THEN 1 ELSE 12)]
         IN  IF \E b \in 1..Len(bins) : res[b].kind = "error"
             THEN Raise("IndexError")
             ELSE [kind |-> "series",
                   rows |-> [b \in 1..Len(bins) |->
                               [bucket |-> bins[b], value |-> res[b].value]]]

\* lines 42-69, with the steps taken, in order
sharpe_body(start_date, end_date, df, freq, full_period, remote) ==
         LET df_index == loc_slice(df, start_date, end_date)
             index    == [i \in 1..Len(df_index) |-> df_index[i].date]
             fetched  == get_risk_free_rate(start_date, end_date, remote)
             re       == reindex(fetched, index)
             ff       == ffill(re, 1, NaN)
             rf       == bfill(ff, Len(ff), NaN)
             pct      == pct_change(df_index)
             \* .iloc[1:]
             rets     == [i \in 1..(IF Len(pct) = 0 THEN 0 ELSE Len(pct) - 1) |->
                             [date |-> index[i + 1], r |-> pct[i + 1]]]
         IN  IF full_period
             THEN LET \* sub() aligns on the union of the two indexes: the first
                      \* label has no return and gives NaN
                      excess == [i \in 1..Len(index) |->
                                   IF i = 1 \/ rf[i] = NaN THEN NaN
                                   ELSE RSub(rets[i - 1].r, RDiv(rf[i], R(365)))]
                  IN  [out |-> [kind |-> "value",
                                value |-> MulByRoot(DivByRoot(Mean(excess), Std(excess)),
                                                    [sqrt_of |-> R(365)])],
                       trace |-> <<"loc", "http_get", "reindex", "pct_change", "sub",
                                   "mean_std">>]
             ELSE [out |-> groupby_apply(rets, freq, index, rf),
                   trace |-> <<"loc", "http_get", "reindex", "pct_change",
                               "groupby_apply">>]

\* get_sharpe_ratio with the check of freq made after the retrieval
get_sharpe_ratio_late_check(start_date, end_date, df, freq, full_period, remote) ==
    LET b == sharpe_body(start_date, end_date, df, freq, full_period, remote)
    IN  IF (~full_period) /\ (freq \notin {"ME", "YE"})
        THEN [out |-> Raise("ValueError"), trace |-> SubSeq(b.trace, 1, 2)]
        ELSE b

\* the call: its result and the steps it took
get_sharpe_ratio(start_date, end_date, df, freq, full_period, remote) ==
    IF (~full_period) /\ (freq \notin {"ME", "YE"})
    THEN [out |-> Raise("ValueError"), trace |-> <<>>]
    ELSE sharpe_body(start_date, end_date, df, freq, full_period, remote)

(***************************************************************************)
(* calculate_model_performance_stats                                       *)
(***************************************************************************)
calculate_model_performance_stats(df, base, remote) ==
    IF Len(df) = 0 THEN [out |-> Raise("IndexError"), trace |-> <<>>]   \* .iloc[-1]
    ELSE LET raw_value == R(df[Len(df)].value)
             returns   == RSub(RDiv(raw_value, R(base)), R(1))
             sharpe    == get_sharpe_ratio(df[1].date, df[Len(df)].date, df, "YE",
                                           TRUE, remote)
             dd        == calculate_draw_down(df, 365, TRUE)
         IN  [out |-> IF dd.kind # "frame" THEN dd
                      ELSE [kind |-> "stats", raw |-> raw_value, returns |-> returns,
                            sharpe |-> sharpe.out.value, mdd |-> Last(dd.rows).mdd],
              trace |-> sharpe.trace]

(***************************************************************************)
(* Inputs                                                                  *)
(***************************************************************************)
MaxLen == 3    \* longest enumerated drawdown series
MaxVal == 3    \* largest enumerated value
MaxNeg == 1    \* smallest enumerated value is -MaxNeg
MaxWin == 3    \* largest enumerated freq_days

\* index labels (the column "date"), increasing
Calendar == <<20240102, 20240103, 20240104, 20240301, 20250102>>

mkdf(dates, vals) == [i \in 1..Len(vals) |-> [date |-> dates[i], value |-> vals[i]]]

ValuesOf(df) == [i \in 1..Len(df) |-> df[i].value]

DDScenario == <<100, 90, 95, 80, 120>>

DDSeries ==
    UNION {[1..k -> (-MaxNeg)..MaxVal] : k \in 0..MaxLen} \cup {DDScenario}

DrawDownCalls ==
    {[op |-> "calculate_draw_down", df |-> mkdf(Calendar, v), freq_days |-> 60,
      full_period |-> TRUE] : v \in DDSeries}
    \cup
    {[op |-> "calculate_draw_down", df |-> mkdf(Calendar, v), freq_days |-> n,
      full_period |-> FALSE] : v \in DDSeries, n \in ((-1)..MaxWin) \cup {5}}

InitDD ==
    /\ call \in DrawDownCalls
    /\ out = None /\ trace = <<>> /\ pc = "ready"
    /\ fred = <<>> /\ out2 = None /\ trace2 = <<>>

\* the call returns: a first call leaves its result and steps in out and trace,
\* the call repeated after a change of the provider in out2 and trace2
Return(result, steps) ==
    /\ call' = call /\ fred' = fred
    /\ IF pc = "ready"
       THEN out' = result /\ trace' = steps /\ pc' = "done"
            /\ out2' = out2 /\ trace2' = trace2
       ELSE out2' = result /\ trace2' = steps /\ pc' = "done2"
            /\ out' = out /\ trace' = trace

DrawDownCall ==
    /\ pc \in {"ready", "changed"}
    /\ call.op = "calculate_draw_down"
    /\ Return(calculate_draw_down(call.df, call.freq_days, call.full_period), <<>>)

NextDD == DrawDownCall

SpecDD == InitDD /\ [][NextDD]_vars

(***************************************************************************)
(* Claims on calculate_draw_down                                           *)
(***************************************************************************)
MaxOfInts(S) == CHOOSE m \in S : \A x \in S : x <= m

MaxOfRats(S) == CHOOSE m \in S : \A x \in S : RLe(x, m)

RefPeak(v, t) == MaxOfInts({v[j] : j \in 1..t})

RefDD(v, t) == Norm(RefPeak(v, t) - v[t], RefPeak(v, t))

RefMDD(v, t) == MaxOfRats({RefDD(v, j) : j \in 1..t})

RefAvDD(v, t) == RDiv(RSum([j \in 1..t |-> RefDD(v, j)]), R(t))

DoneDD == pc = "done" /\ call.op = "calculate_draw_down"

Positive(v) == \A i \in 1..Len(v) : v[i] > 0

\* C1: full-period drawdown of a non-empty series of strictly positive values
\* emits one record per input date, in input order, with dd[t] = (P[t] - v[t]) / P[t]
\* for the running peak P[t], mdd[t] the maximum of dd[0..t] and avdd[t] the exact
\* arithmetic mean of dd[0..t]; the first record is all zero; [100, 90, 95, 80, 120]
\* gives dd = [0, 0.1, 0.05, 0.2, 0] and mdd = [0, 0.1, 0.1, 0.2, 0.2].
C1_FullPeriodDrawdown ==
    (DoneDD /\ call.full_period /\ Len(call.df) > 0 /\ Positive(ValuesOf(call.df)))
    => LET v == ValuesOf(call.df)
       IN  /\ out.kind = "frame"
           /\ Len(out.rows) = Len(v)
           /\ \A t \in 1..Len(v) :
                /\ out.rows[t].date = call.df[t].date
                /\ out.rows[t].dd = RefDD(v, t)
                /\ out.rows[t].mdd = RefMDD(v, t)
                /\ out.rows[t].avdd = RefAvDD(v, t)
           /\ out.rows[1].dd = Zero /\ out.rows[1].mdd = Zero /\ out.rows[1].avdd = Zero
           /\ v = DDScenario =>
                /\ [t \in 1..5 |-> out.rows[t].dd]
                     = <<Zero, Norm(1, 10), Norm(5, 100), Norm(2, 10), Zero>>
                /\ [t \in 1..5 |-> out.rows[t].mdd]
                     = <<Zero, Norm(1, 10), Norm(1, 10), Norm(2, 10), Norm(2, 10)>>

C1_Witness ==
    /\ DoneDD /\ call.full_period /\ ValuesOf(call.df) = DDScenario
    /\ out.kind = "frame" /\ Len(out.rows) = 5
    /\ out.rows[4].dd = <<1, 5>> /\ out.rows[5].mdd = <<1, 5>>
    /\ out.rows[5].avdd = <<7, 100>>

MddMonotone ==
    \A t \in 1..(Len(out.rows) - 1) : RLe(out.rows[t].mdd, out.rows[t + 1].mdd)

MddAtMostOne == \A t \in 1..Len(out.rows) : RLe(out.rows[t].mdd, R(1))

\* C2 as stated: for every series on which full-period drawdown is defined (the
\* running peak never zero), whatever the sign of the values, running_max_drawdown
\* is non-decreasing and at most 1 at every date.
C2_AsStated ==
    (DoneDD /\ call.full_period /\ out.kind = "frame") => (MddMonotone /\ MddAtMostOne)

\* C2 amended: on every such series running_max_drawdown is non-decreasing; it is
\* at most 1 at every date when no value of the series is negative.
C2_MddMonotoneBounded ==
    (DoneDD /\ call.full_period /\ out.kind = "frame")
    => /\ MddMonotone
       /\ (\A i \in 1..Len(call.df) : call.df[i].value >= 0) => MddAtMostOne

C2_Witness ==
    /\ DoneDD /\ call.full_period /\ out.kind = "frame"
    /\ ValuesOf(call.df) = <<2, 0, 3>>
    /\ out.rows[2].mdd = R(1) /\ out.rows[3].mdd = R(1) /\ out.rows[1].mdd = Zero

Chunk(df, k, n) == SubSeq(df, (k - 1) * n + 1, Min(k * n, Len(df)))

\* the final (mdd, avdd) pair of the full-period algorithm run on c alone
FinalPair(c) ==
    LET r == get_full_period_dd(c)
    IN  IF r.kind = "frame"
        THEN [kind |-> "row", mdd |-> r.rows[Len(c)].mdd, avdd |-> r.rows[Len(c)].avdd]
        ELSE r

\* C3: windowed drawdown with window n >= 1 on a series of length L >= 1 returns
\* ceil(L / n) rows in chunk order, row k being the final (mdd, avdd) pair of the
\* full-period algorithm run on observations [k*n, min((k+1)*n, L)) alone; with
\* n = L the single row is the final row of full-period drawdown of the series.
C3_WindowedDrawdown ==
    (DoneDD /\ ~call.full_period /\ call.freq_days >= 1 /\ Len(call.df) >= 1)
    => LET n == call.freq_days
           L == Len(call.df)
       IN  /\ out.kind = "summary"
           /\ Len(out.rows) = (L + n - 1) \div n
           /\ \A k \in 1..Len(out.rows) :
                /\ out.rows[k] = FinalPair(Chunk(call.df, k, n))
                /\ Positive(ValuesOf(Chunk(call.df, k, n))) =>
                     LET c == ValuesOf(Chunk(call.df, k, n))
                     IN  /\ out.rows[k].mdd = RefMDD(c, Len(c))
                         /\ out.rows[k].avdd = RefAvDD(c, Len(c))
           /\ n = L => /\ Len(out.rows) = 1
                       /\ out.rows[1] = FinalPair(call.df)

C3_Witness ==
    /\ DoneDD /\ ~call.full_period /\ call.freq_days = 2
    /\ ValuesOf(call.df) = <<2, 1, 3>>
    /\ out.kind = "summary" /\ Len(out.rows) = 2
    /\ out.rows[1] = [kind |-> "row", mdd |-> <<1, 2>>, avdd |-> <<1, 4>>]
    /\ out.rows[2] = [kind |-> "row", mdd |-> Zero, avdd |-> Zero]

C3_WitnessOneWindow ==
    /\ DoneDD /\ ~call.full_period /\ call.freq_days = 5
    /\ ValuesOf(call.df) = DDScenario
    /\ out.kind = "summary" /\ Len(out.rows) = 1
    /\ out.rows[1] = [kind |-> "row", mdd |-> <<1, 5>>, avdd |-> <<7, 100>>]

(***************************************************************************)
(* Inputs of calculate_portfolio_std: np.array(weights), np.array(std_devs) *)
(* and np.array(correlations), lines 24-26.                                *)
(***************************************************************************)
MaxN == 2    \* largest enumerated dimension

WVals == {Norm(1, 2), R(1)}

SVals == {Zero, Norm(1, 5), R(2)}

DiagVals == {R(-1), Norm(1, 2), R(1)}

OffVals == {R(-2), Zero, R(1)}

WeightArrays ==
    {Arr(<<>>, <<w>>) : w \in WVals}
    \cup UNION {{Arr(<<n>>, d) : d \in [1..n -> WVals]} : n \in 1..MaxN}

StdArrays ==
    {Arr(<<>>, <<x>>) : x \in SVals}
    \cup {Arr(<<n>>, [i \in 1..n |-> x]) : n \in 1..MaxN, x \in SVals}

CorrArrays ==
    {Arr(<<>>, <<d>>) : d \in DiagVals}
    \cup {Arr(<<n>>, [i \in 1..n |-> d]) : n \in 1..MaxN, d \in DiagVals}
    \cup UNION {{Arr(<<r, c>>,
                     [x \in 1..(r * c) |->
                        IF (x - 1) \div c = (x - 1) % c THEN d ELSE o])
                    : d \in DiagVals, o \in OffVals} : r \in 1..MaxN, c \in 1..MaxN}

StdCalls ==
    {[op |-> "calculate_portfolio_std", weights |-> w, std_devs |-> sd,
      correlations |-> c] : w \in WeightArrays, sd \in StdArrays, c \in CorrArrays}

InitStd ==
    /\ call \in StdCalls
    /\ out = None /\ trace = <<>> /\ pc = "ready"
    /\ fred = <<>> /\ out2 = None /\ trace2 = <<>>

PortfolioStdCall ==
    /\ pc \in {"ready", "changed"}
    /\ call.op = "calculate_portfolio_std"
    /\ Return(calculate_portfolio_std(call.weights, call.std_devs, call.correlations),
              <<>>)

NextStd == PortfolioStdCall

SpecStd == InitStd /\ [][NextStd]_vars

(***************************************************************************)
(* Claims on calculate_portfolio_std                                       *)
(***************************************************************************)
DoneStd == pc = "done" /\ call.op = "calculate_portfolio_std"

\* weights of length n, std_devs of length n, correlations n x n, one common n
Consistent ==
    /\ Len(call.weights.shape) = 1
    /\ call.std_devs.shape = call.weights.shape
    /\ call.correlations.shape = <<call.weights.shape[1], call.weights.shape[1]>>

\* sum over i, j of w_i * w_j * s_i * s_j * rho_ij
RefVariance ==
    LET n == call.weights.shape[1]
    IN  RSum([x \in 1..(n * n) |->
                LET i == ((x - 1) \div n) + 1
                    j == ((x - 1) % n) + 1
                IN  RMul(RMul(call.weights.data[i], call.weights.data[j]),
                         RMul(RMul(call.std_devs.data[i], call.std_devs.data[j]),
                              call.correlations.data[x]))])

\* C6: calculate_portfolio_std fails with a dimension-mismatch error, and returns
\* no numeric result, whenever it is not the case that weights has length n,
\* std_devs has length n and correlations is n x n for one common n.
C6_DimensionMismatchFails ==
    (DoneStd /\ ~Consistent) => out.kind = "error"

\* C7: for every dimensionally consistent input whose portfolio variance is
\* negative the call fails with an error instead of returning NaN or a value.
C7_NegativeVarianceFails ==
    (DoneStd /\ Consistent /\ RefVariance[1] < 0) => out.kind = "error"

SingleAsset ==
    /\ DoneStd /\ Consistent
    /\ call.weights.shape = <<1>> /\ call.weights.data[1] = R(1)
    /\ call.std_devs.data[1][1] >= 0

\* the result is the number s >= 0: a root whose radicand is s * s
Returns(s) ==
    /\ out.kind = "value" /\ out.shape = <<>>
    /\ out.data[1] = [sqrt_of |-> RMul(s, s)]

\* C8 as stated: with a single asset of weight 1 the result is exactly the asset's
\* std-dev s, for every s >= 0 and every value of the 1 x 1 correlation entry.
C8_AsStated == SingleAsset => Returns(call.std_devs.data[1])

\* C8 amended: with a single asset of weight 1 the result is exactly the asset's
\* std-dev s >= 0 when the 1 x 1 correlation entry is 1 (or s = 0), and differs
\* from s for every other entry.
C8_SingleAssetUnitCorrelation ==
    SingleAsset
    => (Returns(call.std_devs.data[1])
        <=> (call.correlations.data[1] = R(1) \/ call.std_devs.data[1] = Zero))

C8_Witness ==
    /\ SingleAsset /\ call.correlations.data[1] = R(1)
    /\ call.std_devs.data[1] = Norm(1, 5)
    /\ out.kind = "value" /\ out.data[1] = [sqrt_of |-> Norm(1, 25)]

(***************************************************************************)
(* Inputs of get_sharpe_ratio and calculate_model_performance_stats        *)
(***************************************************************************)
SharpeLen == 4    \* longest enumerated price series
MaxPrice == 2     \* largest enumerated price

SharpeScenario == <<1000, 1100, 1050, 1200>>

RECURSIVE SortedSeq(_)
SortedSeq(S) ==
    IF S = {} THEN <<>>
    ELSE LET m == CHOOSE x \in S : \A y \in S : x <= y
         IN  <<m>> \o SortedSeq(S \ {m})

DateSeqs ==
    {[i \in 1..Cardinality(S) |-> Calendar[SortedSeq(S)[i]]] :
        S \in {T \in SUBSET (1..Len(Calendar)) : Cardinality(T) <= SharpeLen}}

PriceFrames ==
    UNION {{mkdf(d, v) : v \in [1..Len(d) -> 1..MaxPrice]} : d \in DateSeqs}
    \cup {mkdf(Calendar, SharpeScenario)}

\* the quotes are multiples of 365, so that the daily rate dgs10 / 365 is an
\* integer and the squares of the excess returns stay within TLC's integers
Quote(d, n) == [date |-> d, cell |-> [dot |-> FALSE, num |-> R(n)]]

NoQuote(d) == [date |-> d, cell |-> [dot |-> TRUE, num |-> Zero]]

\* a constant 0% rate
FredZero == [i \in 1..Len(Calendar) |-> Quote(Calendar[i], 0)]

\* no quote on the first day and on one day in between
FredGaps ==
    <<NoQuote(Calendar[1]), Quote(Calendar[2], 365), NoQuote(Calendar[3])>>
    \o [i \in 1..(Len(Calendar) - 3) |-> Quote(Calendar[i + 3], 730)]

FredFlat == [i \in 1..Len(Calendar) |-> Quote(Calendar[i], 365)]

FredTables == {FredZero, FredGaps, FredFlat}

Windows == {<<Calendar[1], Calendar[Len(Calendar)]>>, <<Calendar[2], Calendar[4]>>}

SharpeCalls ==
    {[op |-> "get_sharpe_ratio", df |-> df, start_date |-> w[1], end_date |-> w[2],
      freq |-> m[1], full_period |-> m[2]] :
        df \in PriceFrames, w \in Windows,
        m \in {<<"YE", TRUE>>, <<"W", TRUE>>, <<"YE", FALSE>>, <<"ME", FALSE>>,
               <<"W", FALSE>>}}

StatsCalls ==
    {[op |-> "calculate_model_performance_stats", df |-> df, base |-> 1000] :
        df \in PriceFrames}

InitSharpe ==
    /\ call \in SharpeCalls \cup StatsCalls
    /\ fred \in FredTables
    /\ out = None /\ trace = <<>> /\ pc = "ready"
    /\ out2 = None /\ trace2 = <<>>

SharpeCall ==
    /\ pc \in {"ready", "changed"}
    /\ call.op = "get_sharpe_ratio"
    /\ LET r == get_sharpe_ratio(call.start_date, call.end_date, call.df, call.freq,
                                 call.full_period, fred)
       IN  Return(r.out, r.trace)

StatsCall ==
    /\ pc \in {"ready", "changed"}
    /\ call.op = "calculate_model_performance_stats"
    /\ LET r == calculate_model_performance_stats(call.df, call.base, fred)
       IN  Return(r.out, r.trace)

NextSharpe == SharpeCall \/ StatsCall

SpecSharpe == InitSharpe /\ [][NextSharpe]_vars

(***************************************************************************)
(* Claims on get_sharpe_ratio                                              *)
(***************************************************************************)
DoneSharpe == pc = "done" /\ call.op = "get_sharpe_ratio"

\* the pair (full_period, freq) names none of FULL_PERIOD, MONTHLY, YEARLY:
\* full_period = True is FULL_PERIOD whatever freq is ("this precedes freq")
InvalidMode == ~call.full_period /\ call.freq \notin {"ME", "YE"}

\* C4: a call of get_sharpe_ratio whose mode is none of FULL_PERIOD, "ME", "YE"
\* fails with the invalid-argument error (ValueError) before the series is sliced,
\* before the risk-free series is retrieved or reindexed and before any return is
\* computed; it returns no result.
C4_InvalidModeFailsFirst ==
    (DoneSharpe /\ InvalidMode) => (out = Raise("ValueError") /\ trace = <<>>)

C4_Witness ==
    /\ DoneSharpe /\ call.freq = "W" /\ ~call.full_period
    /\ Len(call.df) >= 3
    /\ out = Raise("ValueError") /\ trace = <<>>

\* the returns the call works on: the rows of the slice but the first
RetDates ==
    LET d == loc_slice(call.df, call.start_date, call.end_date)
    IN  [i \in 1..(IF Len(d) = 0 THEN 0 ELSE Len(d) - 1) |-> d[i + 1].date]

CountIn(freq, k) ==
    Cardinality({i \in 1..Len(RetDates) : BucketKey(freq, RetDates[i]) = k})

Periodic == DoneSharpe /\ ~call.full_period /\ call.freq \in {"ME", "YE"}

\* C5: in periodic mode a calendar bucket with fewer than two return
\* observations (none or one) yields NaN for that bucket only: the call does not
\* raise, and the result has a value for every bucket.
C5_ThinBucketIsNaN ==
    (Periodic /\ Len(RetDates) > 0)
    => LET bins == Bins(call.freq, BucketKey(call.freq, RetDates[1]),
                        BucketKey(call.freq, RetDates[Len(RetDates)]))
       IN  /\ out.kind = "series"
           /\ Len(out.rows) = Len(bins)
           /\ \A b \in 1..Len(bins) :
                CountIn(call.freq, bins[b]) < 2 => out.rows[b].value = QNaN

SameYear(df) == \A i \in 1..Len(df) : df[i].date \div 10000 = df[1].date \div 10000

\* the prices whose returns the call works on
SlicedPrices == ValuesOf(loc_slice(call.df, call.start_date, call.end_date))

RefReturns ==
    [i \in 1..(Len(SlicedPrices) - 1) |->
        Norm(100 * (SlicedPrices[i + 1] - SlicedPrices[i]), SlicedPrices[i])]

RefMean == RDiv(RSum(RefReturns), R(Len(RefReturns)))

\* the sample variance, as (sum of squares - n * mean^2) / (n - 1)
RefVar ==
    LET n == Len(RefReturns)
    IN  RDiv(RSub(RSum([i \in 1..n |-> RMul(RefReturns[i], RefReturns[i])]),
                  RMul(R(n), RMul(RefMean, RefMean))),
             R(n - 1))

\* the compound return in percent: the returns telescope
RefCompound ==
    Norm(100 * (SlicedPrices[Len(SlicedPrices)] - SlicedPrices[1]), SlicedPrices[1])

\* a / sqrt(q) as sign and square
RefQuot(a, q) ==
    IF q = Zero THEN (IF a = Zero THEN QNaN ELSE [sgn |-> Sign(a), sq |-> Inf])
    ELSE [sgn |-> Sign(a), sq |-> RDiv(RMul(a, a), q)]

\* a yearly call on a series within one year, at a constant 0% rate, with at
\* least one return
YearlyOneBucket ==
    /\ DoneSharpe /\ ~call.full_period /\ call.freq = "YE"
    /\ fred = FredZero
    /\ SameYear(call.df)
    /\ Len(SlicedPrices) >= 2

\* compound_return(r) / (stdev(r) * sqrt(len(r))); stdev is NaN below two returns
RefYearly ==
    IF Len(RefReturns) < 2 THEN QNaN
    ELSE RefQuot(RefCompound, RMul(RefVar, R(Len(RefReturns))))

\* mean(r) / stdev(r) * sqrt(365)
RefMeanOverStd ==
    IF Len(RefReturns) < 2 THEN QNaN
    ELSE RefQuot(RefMean, RDiv(RefVar, R(365)))

\* C9 as stated: for a series within one calendar year and a constant 0% rate the
\* yearly Sharpe value of the single bucket is mean(r) / stdev(r) * sqrt(365).
C9_AsStated ==
    YearlyOneBucket
    => /\ out.kind = "series" /\ Len(out.rows) = 1
       /\ out.rows[1].value = RefMeanOverStd

\* C9 amended: for a series within one calendar year and a constant 0% rate the
\* yearly Sharpe value of the single bucket is
\* compound_return(r) / (stdev(r) * sqrt(len(r))), with r the percent returns
\* without the anchor and stdev the sample deviation (NaN below two returns); for
\* [1000, 1100, 1050, 1200] it is 20 / (stdev(r) * sqrt(3)), r = [10, -50/11, 100/7].
C9_YearlyCompoundOverStd ==
    YearlyOneBucket
    => /\ out.kind = "series" /\ Len(out.rows) = 1
       /\ out.rows[1].value = RefYearly
       /\ SlicedPrices = SharpeScenario =>
            /\ RefReturns = <<R(10), Norm(-50, 11), Norm(100, 7)>>
            /\ out.rows[1].value = [sgn |-> 1, sq |-> Norm(400 * 53361, 3 * 5198700)]

C9_Witness ==
    /\ YearlyOneBucket /\ SlicedPrices = SharpeScenario
    /\ out.kind = "series" /\ Len(out.rows) = 1
    /\ out.rows[1].bucket = 2024 /\ out.rows[1].value.sgn = 1
    /\ IsFinite(out.rows[1].value.sq)

(***************************************************************************)
(* The provider between two calls                                          *)
(***************************************************************************)
RecallLen == 3    \* longest series of a repeated call

InitRecall ==
    /\ call \in {c \in DrawDownCalls \cup SharpeCalls \cup StatsCalls :
                    Len(c.df) <= RecallLen}
    /\ fred \in FredTables
    /\ out = None /\ trace = <<>> /\ pc = "ready"
    /\ out2 = None /\ trace2 = <<>>

\* the provider publishes other quotes; the call is then made once more, with
\* equal arguments
ProviderChange ==
    /\ pc = "done"
    /\ fred' \in FredTables \ {fred}
    /\ pc' = "changed"
    /\ UNCHANGED <<call, out, trace, out2, trace2>>

NextRecall == DrawDownCall \/ SharpeCall \/ StatsCall \/ ProviderChange

SpecRecall == InitRecall /\ [][NextRecall]_vars

CoreOps == {"get_sharpe_ratio", "calculate_draw_down", "calculate_model_performance_stats"}

NoRetrieval(t) == \A i \in 1..Len(t) : t[i] # "http_get"

\* C10: no call of get_sharpe_ratio, calculate_draw_down or
\* calculate_model_performance_stats takes a remote retrieval step, and a second
\* call with equal arguments returns the result of the first whatever the
\* provider serves by then.
C10_NoNetworkIO ==
    (call.op \in CoreOps)
    => /\ NoRetrieval(trace) /\ NoRetrieval(trace2)
       /\ pc = "done2" => out2 = out

\* the second half of C10 alone
C10_SameArgumentsSameResult ==
    (call.op \in CoreOps /\ pc = "done2") => out2 = out

====
